---------------------------- MODULE Spec2Model ----------------------------
(***************************************************************************)
(* getPicture of @astrojs/image                                            *)
(* (packages/integrations/image/src/lib/get-picture.ts).                   *)
(*                                                                         *)
(* One getPicture call is a coroutine: it validates its parameters, awaits *)
(* the aspect ratio and the format list, awaits the fallback getImage      *)
(* call, then starts one getImage call per (format, width) pair and awaits *)
(* them through nested Promise.all.  The transformer (getImage) is the     *)
(* environment: every call it has been handed settles, in any order,      *)
(* either with the image its request determines or with an error.          *)
(*                                                                         *)
(* Strings that the code assembles or takes apart are sequences of pieces: *)
(* a path is a sequence of name components, "." and "/"; a srcset is a     *)
(* sequence of [url], [num] and [text] pieces.  Numbers are exact          *)
(* rationals, so floating-point rounding error is outside the model.       *)
(***************************************************************************)
EXTENDS FiniteSets, Integers, Sequences, TLC

\* ------------------------------------------------------------------------
\* Bounds of the input space
\* ------------------------------------------------------------------------
MaxWidths == 2      \* longest widths array that is enumerated
MaxFormats == 3     \* longest formats array that is enumerated
MaxTransforms == 4  \* most getImage calls for the source sets of one call

Calls == {"A", "B"}                 \* the getPicture invocations
WidthValues == {400, 800}           \* entries of a widths array
FormatValues == {"webp", "jpg"}     \* entries of a formats array

\* ------------------------------------------------------------------------
\* JavaScript values
\* ------------------------------------------------------------------------
Undefined == [undefined |-> TRUE]   \* the value undefined
NoFormat == "undefined"             \* undefined where a format string goes
NegInfinity == -1                   \* Math.max() of no arguments
Pending == [pending |-> TRUE]       \* slot of a promise that has not settled
PendingToken == <<Pending>>         \* the same where a srcset token goes
NoCall == [nocall |-> TRUE]         \* a getPicture that is never invoked

SeqsUpTo(S, n) == UNION {[1..k -> S] : k \in 0..n}

RECURSIVE LastIndexOf(_, _)
\* Array/String.prototype.lastIndexOf, 1-based; 0 when absent
LastIndexOf(s, x) ==
    IF s = <<>> THEN 0
    ELSE IF s[Len(s)] = x THEN Len(s)
    ELSE LastIndexOf(SubSeq(s, 1, Len(s) - 1), x)

RECURSIVE RemoveFirst(_, _)
\* String.prototype.replace(x, ''): only the first occurrence goes
RemoveFirst(s, x) ==
    IF s = <<>> THEN <<>>
    ELSE IF Head(s) = x THEN Tail(s)
    ELSE <<Head(s)>> \o RemoveFirst(Tail(s), x)

RECURSIVE Concat(_)
\* the string spelled by a sequence of components
Concat(s) == IF s = <<>> THEN "" ELSE Head(s) \o Concat(Tail(s))

\* node:path basename portion: what follows the last "/"
Basename(path) == SubSeq(path, LastIndexOf(path, "/") + 1, Len(path))

\* node:path extname: from the last "." of the basename to its end; empty
\* when there is no "." or the only "." opens the basename
Extname(path) ==
    LET b == Basename(path)
        i == LastIndexOf(b, ".")
    IN  IF i <= 1 \/ b = <<".", ".">> THEN <<>> ELSE SubSeq(b, i, Len(b))

\* extname(p).replace('.', '') as OutputFormat
ExtFormat(path) == Concat(RemoveFirst(Extname(path), "."))

RECURSIVE SetOrder(_)
\* Array.from(new Set(s)): first occurrences, in insertion order
SetOrder(s) ==
    IF s = <<>> THEN <<>>
    ELSE LET init == SetOrder(SubSeq(s, 1, Len(s) - 1))
             last == s[Len(s)]
         IN  IF \E k \in 1..Len(init) : init[k] = last THEN init
             ELSE Append(init, last)

\* Boolean(x) for a format string
Truthy(f) == f # "" /\ f # NoFormat

RECURSIVE FilterBoolean(_)
\* Array.prototype.filter(Boolean)
FilterBoolean(s) ==
    IF s = <<>> THEN <<>>
    ELSE IF Truthy(Head(s)) THEN <<Head(s)>> \o FilterBoolean(Tail(s))
    ELSE FilterBoolean(Tail(s))

\* the last width taken for the largest
MathMaxLast(s) == IF s = <<>> THEN NegInfinity ELSE s[Len(s)]

RECURSIVE MathMax(_)
\* Math.max(...widths)
MathMax(s) ==
    IF s = <<>> THEN NegInfinity
    ELSE LET m == MathMax(Tail(s)) IN IF Head(s) >= m THEN Head(s) ELSE m

\* Math.floor in the place of Math.round
MathFloor(width, ratio) ==
    (width * ratio.den) \div ratio.num

\* Math.round(width / ratio) for a positive ratio num/den: half rounds up
MathRound(width, ratio) ==
    (2 * width * ratio.den + ratio.num) \div (2 * ratio.num)


RECURSIVE Join(_, _)
\* Array.prototype.join(sep) of an array of strings
Join(strs, sep) ==
    IF strs = <<>> THEN <<>>
    ELSE IF Len(strs) = 1 THEN strs[1]
    ELSE strs[1] \o <<sep>> \o Join(Tail(strs), sep)

RECURSIVE Split(_, _)
\* String.prototype.split(sep): the pieces between the separators
Split(s, sep) ==
    IF \A k \in 1..Len(s) : s[k] # sep THEN <<s>>
    ELSE LET k == CHOOSE k \in 1..Len(s) :
                      s[k] = sep /\ \A m \in 1..(k - 1) : s[m] # sep
         IN  <<SubSeq(s, 1, k - 1)>> \o Split(SubSeq(s, k + 1, Len(s)), sep)

Comma == [text |-> ","]

\* ------------------------------------------------------------------------
\* Collaborators that live outside get-picture.ts
\* ------------------------------------------------------------------------
\* parseAspectRatio of ../loaders/index.js: nothing for no override, the
\* number itself for a number, W / H for a "W:H" string
parseAspectRatio(aspectRatio) ==
    IF aspectRatio = Undefined THEN Undefined
    ELSE IF "number" \in DOMAIN aspectRatio THEN aspectRatio.number
    ELSE [num |-> aspectRatio.w, den |-> aspectRatio.h]

\* getImage of ./get-image.js, when it succeeds: deterministic, the
\* attributes it returns are decided by the request; the URL is one piece
getImage(req) == [src |-> <<[url |-> req]>>]

\* the error a failing getImage call rejects with
TransformError(req) == [error |-> "getImage failed", req |-> req]

\* mime.getType: the MIME type registered for an extension, else null
MimeGetType(format) ==
    CASE format = "jpg" -> "image/jpeg"
      [] format = "jpeg" -> "image/jpeg"
      [] format = "png" -> "image/png"
      [] format = "webp" -> "image/webp"
      [] format = "avif" -> "image/avif"
      [] OTHER -> NoFormat

\* ------------------------------------------------------------------------
\* Parameters of a call
\* ------------------------------------------------------------------------
PhotoJpg == <<"photo", ".", "jpg">>
NoExtension == <<"v1", ".", "2", "/", "photo">>
Metadata == [src |-> <<"assets", "/", "a", ".", "png">>, width |-> 1600, height |-> 900]

Sources ==
    { [kind |-> "undefined"],
      [kind |-> "string", path |-> <<>>],
      [kind |-> "string", path |-> PhotoJpg],
      [kind |-> "string", path |-> NoExtension],
      [kind |-> "metadata", metadata |-> Metadata],
      [kind |-> "promise", default |-> Metadata] }

WidthsArgs ==
    { [kind |-> "undefined"], [kind |-> "number", value |-> 400] }
    \cup { [kind |-> "array", items |-> w] : w \in SeqsUpTo(WidthValues, MaxWidths) }

FormatsArgs == SeqsUpTo(FormatValues, MaxFormats)

AspectRatioArgs ==
    { Undefined, [number |-> [num |-> 2, den |-> 1]], [w |-> 3, h |-> 2] }

\* nothing given, or fit and background given and position left out
Options ==
    { [fit |-> "undefined", position |-> "undefined", background |-> "undefined"],
      [fit |-> "cover", position |-> "undefined", background |-> "white"] }

Params ==
    { [src |-> s, widths |-> w, formats |-> f, aspectRatio |-> a, options |-> o] :
        s \in Sources, w \in WidthsArgs, f \in FormatsArgs,
        a \in AspectRatioArgs, o \in Options }

\* the parameter records of the runs that are compared with each other
PairParams ==
    { p \in Params :
        /\ p.widths \in { [kind |-> "array", items |-> <<800, 400>>],
                          [kind |-> "array", items |-> <<400>>] }
        /\ p.formats = <<"webp">>
        /\ p.options.fit = "cover"
        /\ \/ p.src.kind = "metadata" /\ p.aspectRatio = Undefined
           \/ p.src.kind = "string" /\ p.src.path = PhotoJpg
              /\ p.aspectRatio = [w |-> 3, h |-> 2]
           \/ p.src.kind = "promise" /\ p.aspectRatio = Undefined }

\* ------------------------------------------------------------------------
\* get-picture.ts
\* ------------------------------------------------------------------------
\* !src
SrcMissing(src) ==
    \/ src.kind = "undefined"
    \/ src.kind = "string" /\ src.path = <<>>

\* !widths || !Array.isArray(widths)
WidthsInvalid(widths) ==
    \/ widths.kind = "undefined"
    \/ widths.kind # "array"

\* 'then' in src ? (await src).default : src
MetadataOf(src) == IF src.kind = "promise" THEN src.default ELSE src.metadata

\* Boolean(ratio)
RatioTruthy(ratio) == ratio # Undefined /\ ratio.num # 0 /\ ratio.den # 0

\* resolveAspectRatio falling back to a square when a path has no override
resolveAspectRatioSquare(p) ==
    IF p.src.kind = "string"
    THEN IF RatioTruthy(parseAspectRatio(p.aspectRatio))
         THEN parseAspectRatio(p.aspectRatio) ELSE [num |-> 1, den |-> 1]
    ELSE IF RatioTruthy(parseAspectRatio(p.aspectRatio))
         THEN parseAspectRatio(p.aspectRatio)
         ELSE [num |-> MetadataOf(p.src).width, den |-> MetadataOf(p.src).height]

\* resolveAspectRatio
resolveAspectRatio(p) ==
    IF p.src.kind = "string" THEN parseAspectRatio(p.aspectRatio)
    ELSE LET metadata == MetadataOf(p.src)
             parsed == parseAspectRatio(p.aspectRatio)
         IN  IF RatioTruthy(parsed) THEN parsed
             ELSE [num |-> metadata.width, den |-> metadata.height]

\* the extension that resolveFormats adds to the set
NativeFormat(src) ==
    IF src.kind = "string" THEN ExtFormat(src.path)
    ELSE ExtFormat(MetadataOf(src).src)

\* resolveFormats without the unique.add of the source's extension
resolveFormatsDeclaredOnly(p) == FilterBoolean(SetOrder(p.formats))

\* resolveFormats
resolveFormats(p) ==
    FilterBoolean(SetOrder(Append(p.formats, NativeFormat(p.src))))

\* resolveFormats of every parameter record that passes the !src check,
\* worked out once
ResolvedFormats ==
    [ p \in {q \in Params : ~SrcMissing(q.src)} |-> resolveFormats(p) ]

SrcRequired == [error |-> "[@astrojs/image] src is required"]
WidthRequired == [error |-> "[@astrojs/image] at least one width is required"]
AspectRatioRequired == [error |-> "aspectRatio must be provided for remote images"]
ImportFailed == [error |-> "the deferred source rejected"]

\* the argument of the fallback getImage call
FallbackRequest(p, ratio, formats) ==
    [ src |-> p.src,
      width |-> MathMax(p.widths.items),
      aspectRatio |-> ratio,
      fit |-> p.options.fit,
      position |-> p.options.position,
      background |-> p.options.background,
      format |-> IF formats = <<>> THEN NoFormat ELSE formats[Len(formats)] ]

\* getSource handing getImage the awaited metadata in the place of src
SourceRequestResolved(p, ratio, format, width) ==
    [ src |-> IF p.src.kind = "promise"
              THEN [kind |-> "metadata", metadata |-> p.src.default]
              ELSE p.src,
      format |-> format,
      width |-> width,
      fit |-> p.options.fit,
      position |-> p.options.position,
      background |-> p.options.background,
      height |-> MathRound(width, ratio) ]

\* the argument of the getImage call of getSource(format) for one width
SourceRequest(p, ratio, format, width) ==
    [ src |-> p.src,
      format |-> format,
      width |-> width,
      fit |-> p.options.fit,
      position |-> p.options.position,
      background |-> p.options.background,
      height |-> MathRound(width, ratio) ]

\* the template string: img.src, a space, the width, w
Token(img, width) == img.src \o <<[text |-> " "], [num |-> width], [text |-> "w"]>>

\* getSource joining its tokens with a space instead of a comma
SourceEntrySpaceJoined(format, imgs) ==
    [ type |-> IF MimeGetType(format) = NoFormat THEN format ELSE MimeGetType(format),
      srcset |-> Join(imgs, [text |-> " "]) ]

\* what getSource(format) returns once Promise.all has handed it imgs
SourceEntry(format, imgs) ==
    [ type |-> IF MimeGetType(format) = NoFormat THEN format ELSE MimeGetType(format),
      srcset |-> Join(imgs, Comma) ]

\* the first slot that is still pending
FirstPending(arr, pending) ==
    CHOOSE k \in 1..Len(arr) : arr[k] = pending /\ \A m \in 1..(k - 1) : arr[m] # pending

\* tokens collected in the order the getImage calls fulfil
ImgsSettleByArrival(row, j, token) == [row EXCEPT ![FirstPending(row, PendingToken)] = token]

\* entries collected in the order the getSource calls finish
SourcesSettleByArrival(slots, i, entry) == [slots EXCEPT ![FirstPending(slots, Pending)] = entry]

\* Promise.all(widths.map(...)) in getSource: the token of the j-th width
\* goes to the j-th slot of imgs
ImgsSettle(row, j, token) == [row EXCEPT ![j] = token]

\* Promise.all(allFormats.map(...)) in getPicture: the entry of the i-th
\* format goes to the i-th slot of sources
SourcesSettle(slots, i, entry) == [slots EXCEPT ![i] = entry]

\* Promise.all resolves once no slot is pending
AllSettled(arr) == \A k \in 1..Len(arr) : arr[k] # Pending

\* the Promise.all inside getSource resolves once no token is pending
ImgsSettled(row) == \A k \in 1..Len(row) : row[k] # PendingToken

\* every getSource called twice
SourceCallsTwice(p, ratio, formats) ==
    LET W == Len(p.widths.items)
        N == Len(formats) * W
    IN  [ k \in 1..(2 * N) |->
            LET i == (((k - 1) % N) \div W) + 1
                j == ((k - 1) % W) + 1
            IN  [ id |-> <<i, j>>,
                  req |-> SourceRequest(p, ratio, formats[i], p.widths.items[j]) ] ]

\* each getSource awaited before the next one is called: only the calls of
\* the first format are started with the source-set phase
SourceCallsFirstFormat(p, ratio, formats) ==
    LET W == Len(p.widths.items)
    IN  [ k \in 1..(IF formats = <<>> THEN 0 ELSE W) |->
            [ id |-> <<1, k>>,
              req |-> SourceRequest(p, ratio, formats[1], p.widths.items[k]) ] ]

\* the getImage calls that Promise.all(allFormats.map(getSource)) starts,
\* in the order the two nested maps start them
SourceCalls(p, ratio, formats) ==
    LET W == Len(p.widths.items)
    IN  [ k \in 1..(Len(formats) * W) |->
            LET i == ((k - 1) \div W) + 1
                j == ((k - 1) % W) + 1
            IN  [ id |-> <<i, j>>,
                  req |-> SourceRequest(p, ratio, formats[i], p.widths.items[j]) ] ]

FallbackId == <<0, 0>>

\* ------------------------------------------------------------------------
\* State
\* ------------------------------------------------------------------------
VARIABLES
    params,       \* params[c]: the argument of call c, NoCall if c never runs
    pc,           \* pc[c]: where call c stands
    promise,      \* promise[c]: state of the deferred src of call c
    aspectRatio,  \* aspectRatio[c]: const aspectRatio
    allFormats,   \* allFormats[c]: const allFormats
    issued,       \* issued[c]: the getImage calls made so far, in order
    inflight,     \* inflight[c]: ids of the getImage calls not yet settled
    rejected,     \* rejected[c]: ids of the getImage calls that failed
    image,        \* image[c]: const image
    imgs,         \* imgs[c][i]: slots of the Promise.all inside getSource
    sources,      \* sources[c]: slots of the Promise.all over the formats
    result,       \* result[c]: what call c returned or threw
    lifo,         \* lifo[c]: so far every getImage call of the source sets
                  \* fulfilled after all those started later than it
    overlap       \* some call was entered while another was under way

vars == <<params, pc, promise, aspectRatio, allFormats, issued, inflight,
          rejected, image, imgs, sources, result, lifo, overlap>>

InitWith(ps) ==
    /\ params = ps
    /\ pc = [c \in Calls |-> "idle"]
    /\ promise = [c \in Calls |->
                    IF ps[c] # NoCall /\ ps[c].src.kind = "promise"
                    THEN "pending" ELSE "none"]
    /\ aspectRatio = [c \in Calls |-> Undefined]
    /\ allFormats = [c \in Calls |-> <<>>]
    /\ issued = [c \in Calls |-> <<>>]
    /\ inflight = [c \in Calls |-> {}]
    /\ rejected = [c \in Calls |-> {}]
    /\ image = [c \in Calls |-> Pending]
    /\ imgs = [c \in Calls |-> <<>>]
    /\ sources = [c \in Calls |-> <<>>]
    /\ result = [c \in Calls |-> Pending]
    /\ lifo = [c \in Calls |-> TRUE]
    /\ overlap = FALSE

\* the parameters whose source sets need no more than MaxTransforms getImage
\* calls
WithinBudget(p) ==
    (~SrcMissing(p.src) /\ ~WidthsInvalid(p.widths)) =>
        Len(p.widths.items) * Len(resolveFormats(p)) <= MaxTransforms

\* one call, any parameters
Init ==
    \E p \in {q \in Params : WithinBudget(q)} :
        InitWith([c \in Calls |-> IF c = "A" THEN p ELSE NoCall])

\* two calls
InitPair == \E pa \in PairParams, pb \in PairParams :
                InitWith([c \in Calls |-> IF c = "A" THEN pa ELSE pb])

Throw(c, err) ==
    /\ pc' = [pc EXCEPT ![c] = "thrown"]
    /\ result' = [result EXCEPT ![c] = err]

\* call d has been entered and has neither returned nor thrown
UnderWay(d) == pc[d] \notin {"idle", "returned", "thrown"}

\* getPicture is called: the two argument checks, then resolveAspectRatio
\* is entered
Enter(c) ==
    /\ params[c] # NoCall
    /\ pc[c] = "idle"
    /\ IF SrcMissing(params[c].src) THEN Throw(c, SrcRequired)
       ELSE IF WidthsInvalid(params[c].widths) THEN Throw(c, WidthRequired)
       ELSE pc' = [pc EXCEPT ![c] = "aspect"] /\ UNCHANGED result
    /\ overlap' = (overlap \/ \E d \in Calls \ {c} : UnderWay(d))
    /\ UNCHANGED <<params, promise, aspectRatio, allFormats, issued, inflight,
                   rejected, image, imgs, sources, lifo>>

\* the fallback getImage call made before the !aspectRatio check
AwaitAspectRatioAfterFallback(c) ==
    /\ pc[c] = "aspect"
    /\ promise[c] # "pending"
    /\ IF promise[c] = "rejected"
       THEN Throw(c, ImportFailed) /\ UNCHANGED <<aspectRatio, issued>>
       ELSE LET ratio == resolveAspectRatio(params[c])
            IN  IF RatioTruthy(ratio)
                THEN /\ aspectRatio' = [aspectRatio EXCEPT ![c] = ratio]
                     /\ pc' = [pc EXCEPT ![c] = "formats"]
                     /\ UNCHANGED <<result, issued>>
                ELSE /\ Throw(c, AspectRatioRequired)
                     /\ issued' = [issued EXCEPT ![c] =
                            Append(@, [id |-> FallbackId,
                                       req |-> FallbackRequest(params[c], ratio,
                                                   resolveFormats(params[c]))])]
                     /\ UNCHANGED aspectRatio
    /\ UNCHANGED <<params, promise, allFormats, inflight, rejected,
                   image, imgs, sources, lifo, overlap>>

\* await resolveAspectRatio(params) returns, then the !aspectRatio check;
\* a deferred src holds it up until it has settled
AwaitAspectRatio(c) ==
    /\ pc[c] = "aspect"
    /\ promise[c] # "pending"
    /\ IF promise[c] = "rejected"
       THEN Throw(c, ImportFailed) /\ UNCHANGED aspectRatio
       ELSE LET ratio == resolveAspectRatio(params[c])
            IN  IF RatioTruthy(ratio)
                THEN /\ aspectRatio' = [aspectRatio EXCEPT ![c] = ratio]
                     /\ pc' = [pc EXCEPT ![c] = "formats"]
                     /\ UNCHANGED result
                ELSE Throw(c, AspectRatioRequired) /\ UNCHANGED aspectRatio
    /\ UNCHANGED <<params, promise, allFormats, issued, inflight, rejected,
                   image, imgs, sources, lifo, overlap>>

\* allFormats kept in one module-level variable that every call writes
AwaitFormatsShared(c) ==
    /\ pc[c] = "formats"
    /\ LET formats == ResolvedFormats[params[c]]
           req == FallbackRequest(params[c], aspectRatio[c], formats)
       IN  /\ allFormats' = [d \in Calls |-> formats]
           /\ issued' = [issued EXCEPT ![c] = Append(@, [id |-> FallbackId, req |-> req])]
           /\ inflight' = [inflight EXCEPT ![c] = @ \cup {FallbackId}]
    /\ pc' = [pc EXCEPT ![c] = "fallback"]
    /\ UNCHANGED <<params, promise, aspectRatio, rejected, image, imgs,
                   sources, result, lifo, overlap>>

\* the fallback getImage call and the source sets started together, the
\* fallback awaited afterwards
AwaitFormatsWithSources(c) ==
    /\ pc[c] = "formats"
    /\ LET formats == ResolvedFormats[params[c]]
           req == FallbackRequest(params[c], aspectRatio[c], formats)
           calls == SourceCalls(params[c], aspectRatio[c], formats)
       IN  /\ allFormats' = [allFormats EXCEPT ![c] = formats]
           /\ issued' = [issued EXCEPT ![c] =
                           Append(@, [id |-> FallbackId, req |-> req]) \o calls]
           /\ inflight' = [inflight EXCEPT ![c] = @ \cup {FallbackId}]
    /\ pc' = [pc EXCEPT ![c] = "fallback"]
    /\ UNCHANGED <<params, promise, aspectRatio, rejected, image, imgs,
                   sources, result, lifo, overlap>>

\* await resolveFormats(params) returns, then the fallback getImage call is
\* made
AwaitFormats(c) ==
    /\ pc[c] = "formats"
    /\ LET formats == ResolvedFormats[params[c]]
           req == FallbackRequest(params[c], aspectRatio[c], formats)
       IN  /\ allFormats' = [allFormats EXCEPT ![c] = formats]
           /\ issued' = [issued EXCEPT ![c] = Append(@, [id |-> FallbackId, req |-> req])]
           /\ inflight' = [inflight EXCEPT ![c] = @ \cup {FallbackId}]
    /\ pc' = [pc EXCEPT ![c] = "fallback"]
    /\ UNCHANGED <<params, promise, aspectRatio, rejected, image, imgs,
                   sources, result, lifo, overlap>>

\* the request the transformer was handed in the call with this id
RequestOf(c, id) ==
    issued[c][CHOOSE k \in 1..Len(issued[c]) : issued[c][k].id = id].req

\* the fallback getImage call fulfils: image is bound, and
\* Promise.all(allFormats.map(getSource)) starts every getSource, each of
\* which starts its getImage calls; with nothing to wait for it resolves at
\* once and getPicture returns
FallbackFulfils(c) ==
    /\ pc[c] = "fallback"
    /\ FallbackId \in inflight[c]
    /\ LET p == params[c]
           formats == allFormats[c]
           img == getImage(RequestOf(c, FallbackId))
           calls == SourceCalls(p, aspectRatio[c], formats)
           empty == p.widths.items = <<>>
           slots == [i \in 1..Len(formats) |->
                        IF empty THEN SourceEntry(formats[i], <<>>) ELSE Pending]
       IN  /\ image' = [image EXCEPT ![c] = img]
           /\ issued' = [issued EXCEPT ![c] = @ \o calls]
           /\ inflight' = [inflight EXCEPT ![c] =
                             (@ \ {FallbackId}) \cup {calls[k].id : k \in 1..Len(calls)}]
           /\ imgs' = [imgs EXCEPT ![c] =
                         [i \in 1..Len(formats) |->
                            [j \in 1..Len(p.widths.items) |-> PendingToken]]]
           /\ sources' = [sources EXCEPT ![c] = slots]
           /\ IF AllSettled(slots)
              THEN /\ pc' = [pc EXCEPT ![c] = "returned"]
                   /\ result' = [result EXCEPT ![c] = [sources |-> slots, image |-> img]]
              ELSE /\ pc' = [pc EXCEPT ![c] = "sources"]
                   /\ UNCHANGED result
    /\ UNCHANGED <<params, promise, aspectRatio, allFormats, rejected, lifo, overlap>>

\* the fallback getImage call rejects: await throws, getPicture rejects
FallbackRejects(c) ==
    /\ pc[c] = "fallback"
    /\ FallbackId \in inflight[c]
    /\ inflight' = [inflight EXCEPT ![c] = @ \ {FallbackId}]
    /\ rejected' = [rejected EXCEPT ![c] = @ \cup {FallbackId}]
    /\ Throw(c, TransformError(RequestOf(c, FallbackId)))
    /\ UNCHANGED <<params, promise, aspectRatio, allFormats, issued, image,
                   imgs, sources, lifo, overlap>>

\* some getImage call started after that of format i, width j has not
\* fulfilled
StartedLaterUnfulfilled(c, i, j) ==
    \E id \in inflight[c] \cup rejected[c] :
        id[1] > i \/ (id[1] = i /\ id[2] > j)

\* the getImage call of format i, width j fulfils: the map callback returns
\* its token; when that was the last of format i, getSource(i) returns its
\* entry; when that was the last format, getPicture returns
TransformFulfils(c, i, j) ==
    /\ <<i, j>> \in inflight[c]
    /\ i # 0
    /\ LET width == params[c].widths.items[j]
           img == getImage(RequestOf(c, <<i, j>>))
           row == ImgsSettle(imgs[c][i], j, Token(img, width))
           slots == IF ImgsSettled(row)
                    THEN SourcesSettle(sources[c], i,
                                       SourceEntry(allFormats[c][i], row))
                    ELSE sources[c]
       IN  /\ imgs' = [imgs EXCEPT ![c][i] = row]
           /\ sources' = [sources EXCEPT ![c] = slots]
           /\ IF pc[c] = "sources" /\ AllSettled(slots)
              THEN /\ pc' = [pc EXCEPT ![c] = "returned"]
                   /\ result' = [result EXCEPT ![c] =
                                   [sources |-> slots, image |-> image[c]]]
              ELSE UNCHANGED <<pc, result>>
    /\ inflight' = [inflight EXCEPT ![c] = @ \ {<<i, j>>}]
    /\ lifo' = [lifo EXCEPT ![c] = @ /\ ~StartedLaterUnfulfilled(c, i, j)]
    /\ UNCHANGED <<params, promise, aspectRatio, allFormats, issued, rejected,
                   image, overlap>>

\* a rejection that is caught and dropped
TransformRejectsIgnored(c, i, j) ==
    /\ <<i, j>> \in inflight[c]
    /\ i # 0
    /\ inflight' = [inflight EXCEPT ![c] = @ \ {<<i, j>>}]
    /\ rejected' = [rejected EXCEPT ![c] = @ \cup {<<i, j>>}]
    /\ UNCHANGED <<params, pc, promise, aspectRatio, allFormats, issued, image,
                   imgs, sources, result, lifo, overlap>>

\* the getImage call of format i, width j rejects: the Promise.all of
\* getSource(i) rejects, so does the outer one, and getPicture rejects unless
\* an earlier rejection already ended it; nothing is cancelled
TransformRejects(c, i, j) ==
    /\ <<i, j>> \in inflight[c]
    /\ i # 0
    /\ inflight' = [inflight EXCEPT ![c] = @ \ {<<i, j>>}]
    /\ rejected' = [rejected EXCEPT ![c] = @ \cup {<<i, j>>}]
    /\ IF pc[c] = "sources"
       THEN Throw(c, TransformError(RequestOf(c, <<i, j>>)))
       ELSE UNCHANGED <<pc, result>>
    /\ UNCHANGED <<params, promise, aspectRatio, allFormats, issued, image,
                   imgs, sources, lifo, overlap>>

\* the deferred src settles
SrcFulfils(c) ==
    /\ promise[c] = "pending"
    /\ promise' = [promise EXCEPT ![c] = "fulfilled"]
    /\ UNCHANGED <<params, pc, aspectRatio, allFormats, issued, inflight,
                   rejected, image, imgs, sources, result, lifo, overlap>>

SrcRejects(c) ==
    /\ promise[c] = "pending"
    /\ promise' = [promise EXCEPT ![c] = "rejected"]
    /\ UNCHANGED <<params, pc, aspectRatio, allFormats, issued, inflight,
                   rejected, image, imgs, sources, result, lifo, overlap>>

\* some getImage call of the source sets settles
SomeTransformFulfils(c) == \E id \in inflight[c] : TransformFulfils(c, id[1], id[2])

SomeTransformRejects(c) == \E id \in inflight[c] : TransformRejects(c, id[1], id[2])

Next ==
    \E c \in Calls :
        \/ Enter(c)
        \/ AwaitAspectRatio(c)
        \/ AwaitFormats(c)
        \/ FallbackFulfils(c)
        \/ FallbackRejects(c)
        \/ SomeTransformFulfils(c)
        \/ SomeTransformRejects(c)
        \/ SrcFulfils(c)
        \/ SrcRejects(c)

Spec == Init /\ [][Next]_vars

SpecPair == InitPair /\ [][Next]_vars

\* a step of call c: of its own code, or a settling of something it awaits
CallNext(c) ==
    \/ Enter(c)
    \/ AwaitAspectRatio(c)
    \/ AwaitFormats(c)
    \/ FallbackFulfils(c)
    \/ FallbackRejects(c)
    \/ SomeTransformFulfils(c)
    \/ SomeTransformRejects(c)
    \/ SrcFulfils(c)
    \/ SrcRejects(c)

\* what every step of a call changes: where the call stands, the state of
\* its deferred source, or the getImage calls it waits for
progress == <<pc, promise, inflight>>

\* the deferred source settles, every getImage call made settles, and the
\* event loop runs every continuation that is ready: a call that can take a
\* step does not stand still for ever
Fairness == \A c \in Calls : WF_progress(CallNext(c))

SpecLive == Init /\ [][Next]_vars /\ Fairness

\* ------------------------------------------------------------------------
\* Properties
\* ------------------------------------------------------------------------
Returned(c) == pc[c] = "returned"

WidthsOf(c) == params[c].widths.items

\* C1: a getPicture call with at least one width and at least one declared
\* format that returns, returns one sources entry per resolved format, and
\* splitting each srcset at its commas gives as many tokens as there are
\* widths.
C1_OneEntryPerFormat ==
    \A c \in Calls :
        (Returned(c) /\ WidthsOf(c) # <<>> /\ params[c].formats # <<>>) =>
            /\ Len(result[c].sources) = Len(resolveFormats(params[c]))
            /\ \A i \in 1..Len(result[c].sources) :
                 Len(Split(result[c].sources[i].srcset, Comma)) = Len(WidthsOf(c))

\* a call with two widths and one declared format returned two entries,
\* the srcset of each with one comma in it
C1_Witness ==
    \E c \in Calls :
        /\ Returned(c)
        /\ Len(WidthsOf(c)) = 2
        /\ Len(params[c].formats) = 1
        /\ Len(result[c].sources) = 2
        /\ \A i \in 1..2 :
             Cardinality({k \in 1..Len(result[c].sources[i].srcset) :
                             result[c].sources[i].srcset[k] = Comma}) = 1

\* C2: in every srcset that getPicture returns, the j-th token is the URL
\* the transformer gave for the j-th width of the widths array, a space,
\* that width and "w", whatever order the getImage calls fulfilled in.
C2_TokensInWidthOrder ==
    \A c \in Calls :
        Returned(c) =>
            \A i \in 1..Len(result[c].sources) :
                LET tokens == Split(result[c].sources[i].srcset, Comma)
                IN  \A j \in 1..Len(WidthsOf(c)) :
                        /\ Len(tokens[j]) = 4
                        /\ tokens[j][1].url.width = WidthsOf(c)[j]
                        /\ tokens[j][1].url.format = resolveFormats(params[c])[i]
                        /\ tokens[j][2] = [text |-> " "]
                        /\ tokens[j][3] = [num |-> WidthsOf(c)[j]]
                        /\ tokens[j][4] = [text |-> "w"]

\* a call whose widths differ returned after its getImage calls fulfilled
\* in the reverse of the order they were started in
C2_Witness ==
    \E c \in Calls :
        /\ Returned(c)
        /\ lifo[c]
        /\ Len(WidthsOf(c)) = 2
        /\ WidthsOf(c)[1] # WidthsOf(c)[2]

\* C3: the i-th entry of the returned sources is that of the i-th resolved
\* format: it has that format's type and its srcset holds only URLs the
\* transformer made for that format, whatever order the getImage calls of
\* the formats fulfilled in.
C3_SourcesInFormatOrder ==
    \A c \in Calls :
        Returned(c) =>
            LET formats == resolveFormats(params[c])
            IN  /\ Len(result[c].sources) = Len(formats)
                /\ \A i \in 1..Len(formats) :
                     LET entry == result[c].sources[i]
                     IN  /\ entry.type = IF MimeGetType(formats[i]) = NoFormat
                                         THEN formats[i]
                                         ELSE MimeGetType(formats[i])
                         /\ \A k \in 1..Len(entry.srcset) :
                              "url" \in DOMAIN entry.srcset[k] =>
                                  entry.srcset[k].url.format = formats[i]

\* a call with three resolved formats returned after the getImage calls of
\* the last format fulfilled first and those of the first format last
C3_Witness ==
    \E c \in Calls :
        /\ Returned(c)
        /\ lifo[c]
        /\ Len(result[c].sources) = 3
        /\ WidthsOf(c) # <<>>

Range(s) == {s[k] : k \in 1..Len(s)}

\* the first position of x in s
IndexOf(s, x) == CHOOSE k \in 1..Len(s) : s[k] = x /\ \A m \in 1..(k - 1) : s[m] # x

\* allFormats has been computed
FormatsResolved(c) == issued[c] # <<>>

\* allFormats holds each declared format once, in the order of first
\* appearance, then the native format if it has one that was not declared
DeclaredThenNative(c) ==
    LET declared == params[c].formats
        native == NativeFormat(params[c].src)
        all == allFormats[c]
    IN  /\ \A a, b \in 1..Len(all) : a # b => all[a] # all[b]
        /\ Range(all) = (Range(declared) \cup {native}) \ {""}
        /\ \A a, b \in 1..Len(all) :
             (a < b /\ all[a] \in Range(declared) /\ all[b] \in Range(declared)) =>
                 IndexOf(declared, all[a]) < IndexOf(declared, all[b])
        /\ (native # "" /\ native \notin Range(declared)) => all[Len(all)] = native

C5_BarePathNeedsAspectRatio ==
    \A c \in Calls :
        (params[c] # NoCall /\ params[c].src.kind = "string"
            /\ params[c].aspectRatio = Undefined) =>
            /\ ~Returned(c)
            /\ issued[c] = <<>>
            /\ (~SrcMissing(params[c].src) /\ ~WidthsInvalid(params[c].widths)) =>
                   /\ pc[c] \in {"idle", "aspect", "thrown"}
                   /\ pc[c] = "thrown" => result[c] = AspectRatioRequired

\* a call with a path and no override has thrown the aspect-ratio error
C5_Witness ==
    \E c \in Calls :
        /\ pc[c] = "thrown"
        /\ result[c] = AspectRatioRequired
        /\ params[c].src = [kind |-> "string", path |-> PhotoJpg]
        /\ params[c].aspectRatio = Undefined

\* the fallback request asks for the largest width and the last resolved
\* format
MaxWidthLastFormat(c) ==
    LET req == issued[c][1].req
        formats == resolveFormats(params[c])
    IN  /\ issued[c][1].id = FallbackId
        /\ WidthsOf(c) # <<>> =>
               /\ req.width \in Range(WidthsOf(c))
               /\ \A j \in 1..Len(WidthsOf(c)) : WidthsOf(c)[j] <= req.width
        /\ formats # <<>> => req.format = formats[Len(formats)]

\* C6 as stated: the first getImage call is the fallback one; its width is
\* the largest of the widths and its format is the last resolved format,
\* which is the native format only when that was not declared or was the
\* last entry of the declared formats.
C6_NativeOnlyIfDeclaredLast ==
    \A c \in Calls :
        FormatsResolved(c) =>
            LET req == issued[c][1].req
                declared == params[c].formats
            IN  /\ MaxWidthLastFormat(c)
                /\ req.format = NativeFormat(params[c].src) =>
                       \/ req.format \notin Range(declared)
                       \/ declared[Len(declared)] = req.format

\* C6 amended: the first getImage call is the fallback one; its width is the
\* largest of the widths and its format is the last resolved format, which
\* is the native format only when that was not declared or was the last of
\* the declared formats to appear for the first time.
C6_FallbackRequest ==
    \A c \in Calls :
        FormatsResolved(c) =>
            LET req == issued[c][1].req
                declared == params[c].formats
            IN  /\ MaxWidthLastFormat(c)
                /\ req.format = NativeFormat(params[c].src) =>
                       \/ req.format \notin Range(declared)
                       \/ \A x \in Range(declared) \ {req.format} :
                            IndexOf(declared, x) < IndexOf(declared, req.format)

\* the fallback was requested at 800 for widths [800, 400], in the native
\* format jpg, declared between two webp
C6_Witness ==
    \E c \in Calls :
        /\ FormatsResolved(c)
        /\ WidthsOf(c) = <<800, 400>>
        /\ params[c].formats = <<"webp", "jpg", "webp">>
        /\ issued[c][1].req.width = 800
        /\ issued[c][1].req.format = "jpg"

\* C7 as stated: a getPicture call that has a src and whose widths is
\* missing, not an array or an empty array ends by throwing the widths
\* error and returns no PictureResult.
C7_EmptyWidthsRejected ==
    \A c \in Calls :
        (params[c] # NoCall /\ ~SrcMissing(params[c].src)
            /\ (WidthsInvalid(params[c].widths) \/ WidthsOf(c) = <<>>)
            /\ pc[c] # "idle") =>
            pc[c] = "thrown" /\ result[c] = WidthRequired

\* C8: once a getImage call has rejected, getPicture has thrown the error of
\* a rejected call, it has returned nothing, and the rejected call was made
\* once only.
C8_TransformFailureAborts ==
    \A c \in Calls :
        rejected[c] # {} =>
            /\ pc[c] = "thrown"
            /\ result[c] \in {TransformError(RequestOf(c, id)) : id \in rejected[c]}
            /\ \A id \in rejected[c] :
                 Cardinality({k \in 1..Len(issued[c]) : issued[c][k].id = id}) = 1

\* two getImage calls rejected, the others fulfilled after getPicture threw
C8_Witness ==
    \E c \in Calls :
        /\ pc[c] = "thrown"
        /\ Cardinality(rejected[c]) = 2
        /\ inflight[c] = {}
        /\ \E i \in 1..Len(imgs[c]) : \E j \in 1..Len(imgs[c][i]) : imgs[c][i][j] # PendingToken

\* C9: when getPicture returns it has called getImage once for the fallback
\* and once for each pair of a resolved format and a position of widths:
\* Len(formats) * Len(widths) + 1 calls, none of them made twice.
C9_OneCallPerPair ==
    \A c \in Calls :
        Returned(c) =>
            LET formats == resolveFormats(params[c])
                Made(id) == {k \in 1..Len(issued[c]) : issued[c][k].id = id}
            IN  /\ Len(issued[c]) = Len(formats) * Len(WidthsOf(c)) + 1
                /\ Cardinality(Made(FallbackId)) = 1
                /\ \A i \in 1..Len(formats), j \in 1..Len(WidthsOf(c)) :
                     /\ Cardinality(Made(<<i, j>>)) = 1
                     /\ \A k \in Made(<<i, j>>) :
                          /\ issued[c][k].req.format = formats[i]
                          /\ issued[c][k].req.width = WidthsOf(c)[j]

\* a call with two resolved formats and two widths returned after five
\* getImage calls
C9_Witness ==
    \E c \in Calls :
        /\ Returned(c)
        /\ Len(allFormats[c]) = 2
        /\ Len(WidthsOf(c)) = 2
        /\ Len(issued[c]) = 5

\* C10: two getPicture calls with the same parameters that both return,
\* return the same image and the same sources, whatever order their
\* getImage calls fulfilled in.
C10_SameInputsSameResult ==
    \A c, d \in Calls :
        (params[c] = params[d] /\ Returned(c) /\ Returned(d)) =>
            result[c] = result[d]

\* two calls with the same parameters returned, one after its getImage
\* calls fulfilled in reverse order and the other not
C10_Witness ==
    /\ params["A"] = params["B"]
    /\ Returned("A") /\ Returned("B")
    /\ Len(WidthsOf("A")) = 2
    /\ lifo["A"] /\ ~lifo["B"]

\* everything call c holds
CallState(c) ==
    <<params[c], pc[c], promise[c], aspectRatio[c], allFormats[c], issued[c],
      inflight[c], rejected[c], image[c], imgs[c], sources[c], result[c]>>

\* what getPicture(p) returns when nothing else runs: the fallback image and,
\* format by format, the joined tokens of the widths
AloneResult(p) ==
    LET ratio == resolveAspectRatio(p)
        formats == resolveFormats(p)
        widths == p.widths.items
    IN  [ sources |->
            [ i \in 1..Len(formats) |->
                SourceEntry(formats[i],
                    [ j \in 1..Len(widths) |->
                        Token(getImage(SourceRequest(p, ratio, formats[i], widths[j])),
                              widths[j]) ]) ],
          image |-> getImage(FallbackRequest(p, ratio, formats)) ]

\* C11: of two getPicture calls that run interleaved, each returns what it
\* returns when run alone, and every step changes the state of one call
\* only: no step of one call writes anything the other call holds.
C11_CallsIndependent ==
    /\ [](\A c \in Calls : Returned(c) => result[c] = AloneResult(params[c]))
    /\ [][\E c \in Calls : \A d \in Calls \ {c} : CallState(d)' = CallState(d)]_vars

\* two calls with different parameters, one entered while the other was under
\* way, have both returned
C11_Witness ==
    /\ overlap
    /\ Returned("A") /\ Returned("B")
    /\ params["A"] # params["B"]
    /\ allFormats["A"] # allFormats["B"]

\* the per-format, per-width getImage calls that call c has made so far
SourceCallsIssued(c) ==
    { k \in 1..Len(issued[c]) : issued[c][k].id # FallbackId }

\* h is the integer nearest to width / (num/den), a half counting upwards
NearestTo(h, width, ratio) ==
    /\ (2 * h - 1) * ratio.num <= 2 * width * ratio.den
    /\ 2 * width * ratio.den < (2 * h + 1) * ratio.num

\* C12: every per-format, per-width request carries
\* height = round(width / aspectRatio), where aspectRatio is the override
\* when one is given, also for a source with metadata, and otherwise the
\* metadata's width / height.
C12_HeightFromAspectRatio ==
    \A c \in Calls : \A k \in SourceCallsIssued(c) :
        LET p == params[c]
            req == issued[c][k].req
            ratio == IF p.aspectRatio # Undefined
                     THEN parseAspectRatio(p.aspectRatio)
                     ELSE [ num |-> MetadataOf(p.src).width,
                            den |-> MetadataOf(p.src).height ]
        IN  NearestTo(req.height, req.width, ratio)

\* a call on a source with metadata (1600 x 900) and the override 3:2 asked
\* for width 400 with height 267, not the 225 of the metadata
C12_Witness ==
    \E c \in Calls :
        /\ Returned(c)
        /\ params[c].src.kind = "metadata"
        /\ params[c].aspectRatio = [w |-> 3, h |-> 2]
        /\ \E k \in SourceCallsIssued(c) :
              /\ issued[c][k].req.width = 400
              /\ issued[c][k].req.height = 267

\* the (format index, width index) pairs of call c
AllPairs(c) ==
    (1..Len(allFormats[c])) \X (1..Len(WidthsOf(c)))

\* the ids of the per-format, per-width calls that call c has made so far
SourceIdsIssued(c) == { issued[c][k].id : k \in SourceCallsIssued(c) }

\* C13: the per-format, per-width getImage calls are all started together:
\* the step that starts one starts every one of the
\* Len(resolved formats) * Len(widths) calls, all of them under way before
\* any has completed; and getPicture returns only when all have completed.
C13_AllStartedBeforeAnyAwaited ==
    /\ [](\A c \in Calls :
            /\ SourceCallsIssued(c) # {} =>
                 /\ SourceIdsIssued(c) = AllPairs(c)
                 /\ Cardinality(SourceCallsIssued(c)) = Cardinality(AllPairs(c))
            /\ Returned(c) =>
                 /\ SourceIdsIssued(c) = AllPairs(c)
                 /\ inflight[c] = {} /\ rejected[c] = {})
    /\ [][\A c \in Calls :
            Len(issued'[c]) > Len(issued[c]) /\ issued[c] # <<>> =>
                /\ SourceCallsIssued(c) = {}
                /\ AllPairs(c) \subseteq inflight'[c]
                /\ Len(issued'[c]) = Len(issued[c]) + Cardinality(AllPairs(c))]_vars

\* four per-format, per-width calls (two formats, two widths) are under way
\* at once, none completed
C13_Witness ==
    \E c \in Calls :
        /\ pc[c] = "sources"
        /\ Cardinality(AllPairs(c)) = 4
        /\ inflight[c] = AllPairs(c)

\* call c was given a deferred source
Deferred(c) == params[c] # NoCall /\ params[c].src.kind = "promise"

\* C14 as stated: for a deferred source, the source field of every request
\* is the resolved metadata record, never the supplier.
C14_RequestsCarryResolvedSource ==
    \A c \in Calls : \A k \in 1..Len(issued[c]) :
        Deferred(c) =>
            issued[c][k].req.src =
                [kind |-> "metadata", metadata |-> params[c].src.default]

\* C14: every request getPicture issues, the fallback's included, carries the
\* caller's src as it was given, so for a deferred source it carries the
\* supplier itself; by the time any request is issued that supplier has
\* fulfilled, and the request's other fields (width, height or aspect ratio,
\* format) are plain values.
C14_RequestsCarrySettledSupplier ==
    \A c \in Calls : \A k \in 1..Len(issued[c]) :
        LET req == issued[c][k].req
        IN  /\ req.src = params[c].src
            /\ Deferred(c) => promise[c] = "fulfilled"
            /\ req.width \in Int
            /\ req.format \in STRING
            /\ IF issued[c][k].id = FallbackId
               THEN RatioTruthy(req.aspectRatio)
               ELSE req.height \in Int

\* a call on a deferred source returned; its per-format, per-width requests
\* and its fallback request carried the supplier
C14_Witness ==
    \E c \in Calls :
        /\ Returned(c)
        /\ Deferred(c)
        /\ SourceCallsIssued(c) # {}
        /\ \A k \in 1..Len(issued[c]) : issued[c][k].req.src.kind = "promise"

\* the errors of the three argument checks
ArgumentErrors == {SrcRequired, WidthRequired, AspectRatioRequired}

\* C15: when getPicture fails because the source is empty, because widths is
\* missing or not an array, or because no aspect ratio can be determined,
\* getImage has not been called: the failure comes before any transform
\* call, and none follows it.
C15_ArgumentErrorsBeforeAnyCall ==
    \A c \in Calls :
        (pc[c] = "thrown" /\ result[c] \in ArgumentErrors) =>
            /\ issued[c] = <<>>
            /\ inflight[c] = {}

\* a call on a path without an override has failed for want of an aspect
\* ratio, after its source and widths passed their checks
C15_Witness ==
    \E c \in Calls :
        /\ pc[c] = "thrown"
        /\ result[c] = AspectRatioRequired
        /\ params[c].src.kind = "string"
        /\ params[c].widths.kind = "array"
        /\ params[c].widths.items # <<>>
        /\ issued[c] = <<>>

\* the fallback getImage call of call c has been made
FallbackIssued(c) == issued[c] # <<>> /\ issued[c][1].id = FallbackId

\* C16: when a per-format, per-width getImage call has been made, the
\* fallback call was made before it and has fulfilled (image is bound to
\* what it gave); when the fallback call has failed, no per-format,
\* per-width call has been made, then or later.
C16_FallbackCompletesFirst ==
    \A c \in Calls :
        /\ SourceCallsIssued(c) # {} =>
             /\ FallbackIssued(c)
             /\ FallbackId \notin (inflight[c] \cup rejected[c])
             /\ image[c] = getImage(issued[c][1].req)
        /\ FallbackId \in rejected[c] =>
             /\ SourceCallsIssued(c) = {}
             /\ Len(issued[c]) = 1
             /\ pc[c] = "thrown"

\* per-format, per-width calls are under way and the fallback image is
\* bound
C16_Witness ==
    \E c \in Calls :
        /\ pc[c] = "sources"
        /\ SourceCallsIssued(c) # {}
        /\ FallbackIssued(c)
        /\ image[c] # Pending

\* call c has returned or thrown
Finished(c) == pc[c] \in {"returned", "thrown"}

\* C17: when the deferred source settles and every getImage call made
\* settles, every getPicture call finishes, with a result or with an error;
\* while it waits, every slot it waits for belongs to a getImage call that
\* was made and is still under way.
C17_EveryCallFinishes ==
    /\ \A c \in Calls : <>(params[c] = NoCall \/ Finished(c))
    /\ [](\A c \in Calls :
            /\ pc[c] = "fallback" => FallbackId \in inflight[c]
            /\ pc[c] = "sources" =>
                 \A id \in AllPairs(c) :
                     imgs[c][id[1]][id[2]] = PendingToken => id \in inflight[c])

\* a call on a deferred source has finished with a result after four
\* per-format, per-width calls
C17_Witness ==
    \E c \in Calls :
        /\ Deferred(c)
        /\ Returned(c)
        /\ Cardinality(SourceCallsIssued(c)) = 4

==========================================================================
